---- MODULE Spec2Model ----
(***************************************************************************)
(* A model of backend/index.js: an Express application with five routes    *)
(* over one MongoDB collection ("books").                                  *)
(*                                                                         *)
(* Strings that the code looks into (path ids, stored ids, categories) are *)
(* sequences of one-character strings, so that the ObjectId constructor    *)
(* and the truthiness test of the category parameter are computed, not     *)
(* assumed.  A JSON value is a record [t, v]: t = "str" for a JSON string, *)
(* t = "oid" for a BSON ObjectId (which JSON cannot express).              *)
(***************************************************************************)
EXTENDS Naturals, Sequences, FiniteSets

----------------------------------------------------------------------------
(* Bounds of the model *)

\* requests accepted over a run
MaxReqs == 2

\* requests whose handler is suspended at its await at the same time
MaxInFlight == 2

----------------------------------------------------------------------------
(* Values *)

Rep(c, n) == [i \in 1..n |-> c]

Str(s) == [t |-> "str", v |-> s]

Oid(s) == [t |-> "oid", v |-> s]

HexDigits == {"0", "1", "2", "3", "4", "5", "6", "7", "8", "9",
              "a", "b", "c", "d", "e", "f", "A", "B", "C", "D", "E", "F"}

\* the byte a hex digit denotes does not depend on its case
LowerHex(c) ==
    CASE c = "A" -> "a" [] c = "B" -> "b" [] c = "C" -> "c"
      [] c = "D" -> "d" [] c = "E" -> "e" [] c = "F" -> "f"
      [] OTHER -> c

\* new ObjectId(id) that accepts any string: the id's characters taken as they are
ObjectIdUnchecked(s) == [ok |-> TRUE, oid |-> Oid(s)]

\* new ObjectId(id) of a string: 24 hex digits give the 12 bytes they denote
\* (kept here as the lower-case digits, which is also how the id is
\* serialised in a response); anything else throws a BSONError.
ObjectId(s) ==
    IF Len(s) = 24 /\ \A i \in 1..Len(s) : s[i] \in HexDigits
    THEN [ok |-> TRUE, oid |-> Oid([i \in 1..Len(s) |-> LowerHex(s[i])])]
    ELSE [ok |-> FALSE, oid |-> Oid(<<>>)]

\* how an id appears in a JSON response (ObjectId.toJSON is its hex string)
IdText(id) == id.v

IdA == Rep("0", 23) \o <<"a">>

IdB == Rep("0", 23) \o <<"b">>

IdBUpper == Rep("0", 23) \o <<"B">>

IdShort == <<"x", "y", "z">>

\* req.params.id: a well-formed id, a second one spelled in upper case, a
\* malformed one
PathIds == {IdA, IdBUpper, IdShort}

\* the ObjectIds the driver's generator can produce here
OidPool == {Oid(IdA), Oid(IdB)}

Dune == <<"D", "u", "n", "e">>

Scifi == <<"s", "c", "i", "f", "i">>

ScifiCap == <<"S", "c", "i", "f", "i">>

BodyFields == {"title", "category", "_id"}

FieldValues(f) ==
    CASE f = "title" -> {Str(Dune)}
      [] f = "category" -> {Str(Scifi), Str(ScifiCap)}
      [] f = "_id" -> {Str(IdA)}

AllValues == UNION {FieldValues(f) : f \in BodyFields}

\* req.body: a JSON object over some of the fields
Bodies ==
    UNION {{b \in [S -> AllValues] : \A f \in S : b[f] \in FieldValues(f)} :
           S \in SUBSET BodyFields}

EmptyObj == [f \in {} |-> Str(<<>>)]

\* req.query: the category parameter absent, empty, or a non-empty string
Queries ==
    {EmptyObj} \cup
    {[f \in {"category"} |-> Str(c)] : c \in {<<>>, Scifi, ScifiCap}}

\* the bodies sent to POST: books of one category
UploadBodies ==
    {b \in Bodies : "category" \in DOMAIN b => b["category"] = Str(Scifi)}

\* the bodies sent to PATCH: {field: v}
PatchBodies == {b \in Bodies : Cardinality(DOMAIN b) = 1}

\* the book the collection holds when the process starts
StoredBook ==
    [f \in BodyFields |->
        CASE f = "_id" -> Oid(IdB)
          [] f = "title" -> Str(Dune)
          [] OTHER -> Str(Scifi)]

Requests ==
    [op : {"create"}, id : {<<>>}, body : UploadBodies, query : {EmptyObj}]
    \cup [op : {"list"}, id : {<<>>}, body : {EmptyObj}, query : Queries]
    \cup [op : {"get", "delete"}, id : PathIds, body : {EmptyObj}, query : {EmptyObj}]
    \cup [op : {"update"}, id : PathIds, body : PatchBodies, query : {EmptyObj}]

\* the requests made while the process starts
StartupRequests ==
    {r \in Requests : /\ r.id \in {<<>>, IdA}
                      /\ "category" \notin DOMAIN r.body
                      /\ "_id" \notin DOMAIN r.body
                      /\ r.query = EmptyObj}

----------------------------------------------------------------------------
(* The collection's operations (the MongoDB driver and server) *)

\* a document satisfies an equality filter
Matches(doc, filter) ==
    \A f \in DOMAIN filter : f \in DOMAIN doc /\ doc[f] = filter[f]

FirstMatch(coll, filter) ==
    IF \E i \in 1..Len(coll) : Matches(coll[i], filter)
    THEN CHOOSE i \in 1..Len(coll) :
            /\ Matches(coll[i], filter)
            /\ \A j \in 1..(i - 1) : ~Matches(coll[j], filter)
    ELSE 0

\* the fields of upd laid over doc
Merge(doc, upd) ==
    [f \in (DOMAIN doc) \cup (DOMAIN upd) |->
        IF f \in DOMAIN upd THEN upd[f] ELSE doc[f]]

Remove(coll, i) == [k \in 1..(Len(coll) - 1) |-> IF k < i THEN coll[k] ELSE coll[k + 1]]

Result(err, coll, docs, n, modified, id) ==
    [err |-> err, coll |-> coll, docs |-> docs, n |-> n, modified |-> modified, id |-> id]

\* insertOne(doc): doc already carries its _id; the _id index is unique
insertOne(coll, doc) ==
    IF \E i \in 1..Len(coll) : coll[i]["_id"] = doc["_id"]
    THEN Result("duplicate", coll, <<>>, 0, 0, <<>>)
    ELSE Result("none", Append(coll, doc), <<>>, 1, 0, <<doc["_id"]>>)

\* find that stops after its first document
findFirstOnly(coll, filter) ==
    LET all == SelectSeq(coll, LAMBDA d : Matches(d, filter))
    IN  Result("none", coll, IF all = <<>> THEN <<>> ELSE <<Head(all)>>, 0, 0, <<>>)

\* find(filter).toArray()
find(coll, filter) ==
    Result("none", coll, SelectSeq(coll, LAMBDA d : Matches(d, filter)), 0, 0, <<>>)

\* findOne(filter): the document, or null (the empty sequence here)
findOne(coll, filter) ==
    LET i == FirstMatch(coll, filter)
    IN  Result("none", coll, IF i = 0 THEN <<>> ELSE <<coll[i]>>, 0, 0, <<>>)

\* an update that stores its body as the whole document
ApplyReplace(doc, set) == Merge([f \in {"_id"} |-> doc["_id"]], set)

\* the document an update leaves: its $set fields replace the old ones
ApplySet(doc, set) == Merge(doc, set)

\* updateOne without the upsert option
updateOneNoUpsert(coll, filter, set) ==
    LET i == FirstMatch(coll, filter)
    IN  IF i = 0
        THEN Result("none", coll, <<>>, 0, 0, <<>>)
        ELSE IF ApplySet(coll[i], set)["_id"] # coll[i]["_id"]
        THEN Result("immutable", coll, <<>>, 0, 0, <<>>)
        ELSE Result("none", [coll EXCEPT ![i] = ApplySet(coll[i], set)], <<>>, 1,
                    IF ApplySet(coll[i], set) = coll[i] THEN 0 ELSE 1, <<>>)

\* updateOne that lets $set replace the _id
updateOneMutableId(coll, filter, set) ==
    LET i == FirstMatch(coll, filter)
        old == IF i = 0 THEN filter ELSE coll[i]
        new == ApplySet(old, set)
    IN  IF i = 0
        THEN Result("none", Append(coll, new), <<>>, 0, 0, <<new["_id"]>>)
        ELSE Result("none", [coll EXCEPT ![i] = new], <<>>, 1,
                    IF new = old THEN 0 ELSE 1, <<>>)

\* updateOne(filter, {$set: set}, {upsert: true}); _id is immutable
updateOne(coll, filter, set) ==
    LET i == FirstMatch(coll, filter)
        old == IF i = 0 THEN filter ELSE coll[i]
        new == ApplySet(old, set)
    IN  IF new["_id"] # old["_id"]
        THEN Result("immutable", coll, <<>>, 0, 0, <<>>)
        ELSE IF i = 0
        THEN Result("none", Append(coll, new), <<>>, 0, 0, <<new["_id"]>>)
        ELSE Result("none", [coll EXCEPT ![i] = new], <<>>, 1,
                    IF new = old THEN 0 ELSE 1, <<>>)

\* deleteOne that reports a deletion and removes nothing
deleteOneKeeps(coll, filter) ==
    Result("none", coll, <<>>, IF FirstMatch(coll, filter) = 0 THEN 0 ELSE 1, 0, <<>>)

\* deleteOne(filter)
deleteOne(coll, filter) ==
    LET i == FirstMatch(coll, filter)
    IN  IF i = 0
        THEN Result("none", coll, <<>>, 0, 0, <<>>)
        ELSE Result("none", Remove(coll, i), <<>>, 1, 0, <<>>)

----------------------------------------------------------------------------
(* The process *)

VARIABLES
    listening,   \* the HTTP server accepts connections (app.listen)
    dbState,     \* where run() is: "idle", "connecting", "pinging", "connected", "failed"
    process,     \* "up", or "crashed" once an unhandled rejection has ended it
    console,     \* what the process has written to its console
    books,       \* the collection, in its natural order
    generated,   \* the ObjectIds the driver has generated, in this run or before
    slots,       \* the handlers suspended at their await
    sent,        \* what the step that led here answered to a request, if anything
    nreq,        \* requests accepted so far
    fresh,       \* history: ids returned by Create and not updated or deleted since
    deleted      \* history: ids deleted and not created again since

vars == <<listening, dbState, process, console, books, generated, slots, sent,
          nreq, fresh, deleted>>

NoReq == [op |-> "none", id |-> <<>>, body |-> EmptyObj, query |-> EmptyObj]

Idle == [pc |-> "idle", req |-> NoReq, filter |-> EmptyObj, doc |-> EmptyObj]

Await(req, filter, doc) == [pc |-> "await", req |-> req, filter |-> filter, doc |-> doc]

\* what a request's client is answered; of the request, its route, path id and query
Answer(kind, cause, req, res) ==
    [kind |-> kind, cause |-> cause, op |-> req.op, path |-> req.id, query |-> req.query,
     docs |-> res.docs, n |-> res.n, modified |-> res.modified, id |-> res.id]

NoResult == Result("none", <<>>, <<>>, 0, 0, <<>>)

Nothing == Answer("nothing", "none", NoReq, NoResult)

\* the script is loaded: nothing has run yet, and the collection holds what
\* earlier runs have left in it
Init ==
    /\ listening = FALSE
    /\ dbState = "idle"
    /\ process = "up"
    /\ console = {}
    /\ books = <<StoredBook>>
    /\ generated = {Oid(IdB)}
    /\ slots = [s \in 1..MaxInFlight |-> Idle]
    /\ sent = Nothing
    /\ nreq = 0
    /\ fresh = {}
    /\ deleted = {}

\* the script's last lines: run() is called and suspends at client.connect(),
\* then app.listen() opens the port
Start ==
    /\ dbState = "idle"
    /\ dbState' = "connecting"
    /\ listening' = TRUE
    /\ console' = console \cup {"listening"}
    /\ sent' = Nothing
    /\ UNCHANGED <<process, books, generated, slots, nreq, fresh, deleted>>

\* run(): client.connect() resolves, the ping is sent
Connected ==
    /\ process = "up"
    /\ dbState = "connecting"
    /\ dbState' = "pinging"
    /\ sent' = Nothing
    /\ UNCHANGED <<listening, process, console, books, generated, slots, nreq, fresh, deleted>>

\* run(): the ping resolves and the success line is logged
Pinged ==
    /\ process = "up"
    /\ dbState = "pinging"
    /\ dbState' = "connected"
    /\ console' = console \cup {"pinged"}
    /\ sent' = Nothing
    /\ UNCHANGED <<listening, process, books, generated, slots, nreq, fresh, deleted>>

\* run(): connect() or the ping rejects; run().catch(console.dir) logs the error
RunFailed ==
    /\ process = "up"
    /\ dbState \in {"connecting", "pinging"}
    /\ dbState' = "failed"
    /\ console' = console \cup {"error"}
    /\ sent' = Nothing
    /\ UNCHANGED <<listening, process, books, generated, slots, nreq, fresh, deleted>>

----------------------------------------------------------------------------
(* The route handlers, up to their await *)

\* a request reaches its handler only once the database is connected
AcceptsOnceConnected == listening /\ process = "up" /\ dbState = "connected"

\* a request reaches its handler: the routes are registered before run() is
\* called and nothing in them looks at the state of the connection
Accepts == listening /\ process = "up"

\* the lowest free slot (which slot holds a handler has no meaning)
FreeSlot(s) ==
    /\ slots[s].pc = "idle"
    /\ \A k \in 1..(s - 1) : slots[k].pc # "idle"

\* a JavaScript string in a condition: the empty string is false
Truthy(val) == val.v # <<>>

\* the query of /all-books: {category} if req.query.category is truthy, else {}
AllBooksQuery(query) ==
    IF "category" \in DOMAIN query /\ Truthy(query["category"])
    THEN [f \in {"category"} |-> query["category"]]
    ELSE EmptyObj

\* the filter of the /book/:id handlers: { _id: new ObjectId(id) }
IdFilter(id) == [f \in {"_id"} |-> ObjectId(id).oid]

\* the document insertOne sends: the driver adds a generated _id to a
\* document that has none, when insertOne is called
WithId(data, newId) ==
    IF "_id" \in DOMAIN data THEN data ELSE Merge(data, [f \in {"_id"} |-> newId])

\* A rejected handler promise is caught nowhere.  What the client sees is
\* decided by the versions of express and node, which the source does not
\* fix: the framework's own 500 answer (express 5), no answer at all
\* (express 4: the request stays open), or the end of the process (express 4
\* on a node that ends the process on an unhandled rejection).
Rejected(req, cause) ==
    \E kind \in {"error500", "none", "reset"} :
        /\ sent' = Answer(kind, cause, req, NoResult)
        /\ process' = IF kind = "reset" THEN "crashed" ELSE process
        /\ listening' = IF kind = "reset" THEN FALSE ELSE listening

Accepted(s, req, filter, doc) ==
    /\ slots' = [slots EXCEPT ![s] = Await(req, filter, doc)]
    /\ sent' = Nothing
    /\ UNCHANGED <<listening, process>>

\* app.post("/upload-book"), to its await
PostUploadBook(s, req) ==
    /\ req.op = "create"
    /\ Accepts /\ FreeSlot(s) /\ nreq < MaxReqs
    /\ nreq' = nreq + 1
    /\ IF "_id" \in DOMAIN req.body
       THEN /\ Accepted(s, req, EmptyObj, WithId(req.body, Oid(<<>>)))
            /\ UNCHANGED generated
       ELSE \E g \in OidPool \ generated :
               /\ Accepted(s, req, EmptyObj, WithId(req.body, g))
               /\ generated' = generated \cup {g}
    /\ UNCHANGED <<dbState, console, books, fresh, deleted>>

\* app.get("/all-books"), to its await
GetAllBooks(s, req) ==
    /\ req.op = "list"
    /\ Accepts /\ FreeSlot(s) /\ nreq < MaxReqs
    /\ nreq' = nreq + 1
    /\ Accepted(s, req, AllBooksQuery(req.query), EmptyObj)
    /\ UNCHANGED <<dbState, console, books, generated, fresh, deleted>>

\* the /book/:id handlers, to their await: new ObjectId(id) throws before the
\* collection is called
ById(s, req) ==
    /\ Accepts /\ FreeSlot(s) /\ nreq < MaxReqs
    /\ nreq' = nreq + 1
    /\ IF ObjectId(req.id).ok
       THEN Accepted(s, req, IdFilter(req.id), req.body)
       ELSE Rejected(req, "bson") /\ UNCHANGED slots
    /\ UNCHANGED <<dbState, console, books, generated, fresh, deleted>>

\* app.patch("/book/:id"), to its await
PatchBook(s, req) == req.op = "update" /\ ById(s, req)

\* app.delete("/book/:id"), to its await
DeleteBook(s, req) == req.op = "delete" /\ ById(s, req)

\* app.get("/book/:id"), to its await
GetBook(s, req) == req.op = "get" /\ ById(s, req)

----------------------------------------------------------------------------
(* The awaited operation and the rest of the handler *)

\* the collection call a suspended handler has made
Exec(coll, slot) ==
    CASE slot.req.op = "create" -> insertOne(coll, slot.doc)
      [] slot.req.op = "list" -> find(coll, slot.filter)
      [] slot.req.op = "update" -> updateOne(coll, slot.filter, slot.doc)
      [] slot.req.op = "delete" -> deleteOne(coll, slot.filter)
      [] slot.req.op = "get" -> findOne(coll, slot.filter)

\* the same id as the path names it: its text up to the case of the digits
SameText(text, id) == text = [i \in 1..Len(id) |-> LowerHex(id[i])]

FreshAfter(req, res) ==
    CASE req.op = "create" ->
            fresh \cup {[text |-> IdText(res.id[1]), body |-> req.body]}
      [] req.op \in {"update", "delete"} ->
            {e \in fresh : ~SameText(e.text, req.id)}
      [] OTHER -> fresh

DeletedAfter(slot, res) ==
    CASE slot.req.op = "create" -> deleted \ {res.id[1]}
      [] slot.req.op = "update" -> deleted \ {slot.filter["_id"]}
      [] slot.req.op = "delete" /\ res.n = 1 -> deleted \cup {slot.filter["_id"]}
      [] OTHER -> deleted

\* the awaited call fails in the driver: the database cannot be reached
StorageUnreachable(s) ==
    /\ process = "up"
    /\ slots[s].pc = "await"
    /\ Rejected(slots[s].req, "network")
    /\ slots' = [slots EXCEPT ![s] = Idle]
    /\ UNCHANGED <<dbState, console, books, generated, nreq, fresh, deleted>>

\* the awaited call is carried out by the database; then res.send(result),
\* or the call's error rejects the handler
StorageReply(s) ==
    /\ process = "up"
    /\ slots[s].pc = "await"
    /\ LET res == Exec(books, slots[s])
       IN  IF res.err = "none"
           THEN /\ books' = res.coll
                /\ sent' = Answer("ok", "none", slots[s].req, res)
                /\ fresh' = FreshAfter(slots[s].req, res)
                /\ deleted' = DeletedAfter(slots[s], res)
                /\ UNCHANGED <<listening, process>>
           ELSE /\ Rejected(slots[s].req, res.err)
                /\ UNCHANGED <<books, fresh, deleted>>
    /\ slots' = [slots EXCEPT ![s] = Idle]
    /\ UNCHANGED <<dbState, console, generated, nreq>>

\* the state of a process that has started and whose run() has succeeded
InitServing ==
    /\ listening = TRUE
    /\ dbState = "connected"
    /\ process = "up"
    /\ console = {"listening", "pinged"}
    /\ books = <<StoredBook>>
    /\ generated = {Oid(IdB)}
    /\ slots = [s \in 1..MaxInFlight |-> Idle]
    /\ sent = Nothing
    /\ nreq = 0
    /\ fresh = {}
    /\ deleted = {}

\* the router: a request goes to the handler of its method and path
Dispatch(s, req) ==
    \/ PostUploadBook(s, req)
    \/ GetAllBooks(s, req)
    \/ PatchBook(s, req)
    \/ DeleteBook(s, req)
    \/ GetBook(s, req)

Handle(reqs) ==
    \/ \E s \in 1..MaxInFlight, req \in reqs : Dispatch(s, req)
    \/ \E s \in 1..MaxInFlight :
          \/ StorageUnreachable(s)
          \/ StorageReply(s)

Next == Handle(Requests)

NextStartup ==
    \/ Start
    \/ Connected
    \/ Pinged
    \/ RunFailed
    \/ Handle(StartupRequests)

\* the requests served by a started process
Spec == InitServing /\ [][Next]_vars

\* the start of the process, with requests arriving while it starts
SpecStartup == Init /\ [][NextStartup]_vars

----------------------------------------------------------------------------
(* Vocabulary of the properties *)

\* the handler in slot s finishes in this step
Replied(s) == slots[s].pc = "await" /\ slots'[s].pc = "idle"

\* the storage layer's identifier format: 24 hexadecimal digits
WellFormed(id) == Len(id) = 24 /\ \A i \in 1..Len(id) : id[i] \in HexDigits

\* the identifier a well-formed path id denotes
OidOf(id) == Oid([i \in 1..Len(id) |-> LowerHex(id[i])])

Holds(coll, id) == \E i \in 1..Len(coll) : coll[i]["_id"] = id

Ids(coll) == [i \in 1..Len(coll) |-> coll[i]["_id"]]

\* doc has every field of body, with body's value
HasFields(doc, body) ==
    \A f \in DOMAIN body : f \in DOMAIN doc /\ doc[f] = body[f]

----------------------------------------------------------------------------
(* C1 *)

\* C1 as claimed: a Get by the id a Create returned, carried out by the
\* database while that id has been neither updated nor deleted, answers a
\* document that has every field of the Create's body with its value.
C1_CreateThenGet ==
    [][\A s \in 1..MaxInFlight :
          (Replied(s) /\ slots[s].req.op = "get" /\ sent'.cause # "network") =>
             \A e \in fresh :
                e.text = slots[s].req.id =>
                   /\ sent'.kind = "ok"
                   /\ Len(sent'.docs) = 1
                   /\ HasFields(sent'.docs[1], e.body)]_vars

----------------------------------------------------------------------------
(* C2 *)

\* C2: an Update of an id that exists leaves the number of records, every
\* other record, the record's id and every field that is not in the body as
\* they were; when it succeeds, the body's field has the body's value.
C2_UpdateChangesOnlyField ==
    [][\A s \in 1..MaxInFlight :
          (/\ Replied(s)
           /\ slots[s].req.op = "update"
           /\ Holds(books, OidOf(slots[s].req.id))) =>
             LET id == OidOf(slots[s].req.id)
                 body == slots[s].req.body
             IN  /\ Len(books') = Len(books)
                 /\ \A k \in 1..Len(books) :
                       IF books[k]["_id"] # id
                       THEN books'[k] = books[k]
                       ELSE /\ books'[k]["_id"] = id
                            /\ \A f \in ((DOMAIN books[k]) \cup (DOMAIN books'[k])) \ DOMAIN body :
                                  /\ f \in DOMAIN books[k]
                                  /\ f \in DOMAIN books'[k]
                                  /\ books'[k][f] = books[k][f]
                            /\ sent'.kind = "ok" => HasFields(books'[k], body)]_vars

\* an Update has changed a field of a record that has two more, beside another record
C2_Witness ==
    /\ sent.op = "update" /\ sent.kind = "ok" /\ sent.modified = 1
    /\ Len(books) = 2
    /\ \E k \in 1..Len(books) :
          /\ books[k]["_id"] = OidOf(sent.path)
          /\ DOMAIN books[k] = {"_id", "title", "category"}

----------------------------------------------------------------------------
(* C3 *)

\* an Update of a well-formed id that no record has creates one record
Upserts(s) ==
    /\ sent'.kind = "ok"
    /\ Len(books') = Len(books) + 1
    /\ \A k \in 1..Len(books) : books'[k] = books[k]
    /\ books'[Len(books')]["_id"] = OidOf(slots[s].req.id)
    /\ HasFields(books'[Len(books')], slots[s].req.body)

\* C3 as claimed: for every field of the body {field: v}
C3_UpsertAnyField ==
    [][\A s \in 1..MaxInFlight :
          (/\ Replied(s)
           /\ slots[s].req.op = "update"
           /\ sent'.cause # "network"
           /\ ~Holds(books, OidOf(slots[s].req.id))) => Upserts(s)]_vars

\* C3, amended: an Update of a well-formed id that no record has, with a body
\* {field: v} whose field is not _id, is no error: one record is added, with
\* the path's id and field = v, and the records that existed are unchanged.
C3_UpsertNonIdField ==
    [][\A s \in 1..MaxInFlight :
          (/\ Replied(s)
           /\ slots[s].req.op = "update"
           /\ sent'.cause # "network"
           /\ "_id" \notin DOMAIN slots[s].req.body
           /\ ~Holds(books, OidOf(slots[s].req.id))) => Upserts(s)]_vars

\* an Update has just created a record beside another one
C3_Witness ==
    /\ sent.op = "update" /\ sent.kind = "ok"
    /\ sent.id = <<OidOf(sent.path)>>
    /\ Len(books) = 2
    /\ books[2]["_id"] = OidOf(sent.path)
    /\ Cardinality(DOMAIN books[2]) = 2

----------------------------------------------------------------------------
(* C4 *)

\* C4: once an id has been deleted and not created again, a Get of it that
\* the database carries out answers null with success, and a Delete of it
\* answers a count of 0 with success and leaves the collection as it was.
C4_DeletedStaysAbsent ==
    [][\A s \in 1..MaxInFlight :
          (/\ Replied(s)
           /\ slots[s].req.op \in {"get", "delete"}
           /\ sent'.cause # "network"
           /\ OidOf(slots[s].req.id) \in deleted) =>
             /\ sent'.kind = "ok"
             /\ sent'.docs = <<>>
             /\ sent'.n = 0
             /\ books' = books]_vars

\* a second Delete of a deleted id has answered a count of 0
C4_Witness ==
    /\ sent.op = "delete" /\ sent.kind = "ok" /\ sent.n = 0
    /\ OidOf(sent.path) \in deleted

\* a Get of a deleted id has answered null
C4_WitnessGet ==
    /\ sent.op = "get" /\ sent.kind = "ok" /\ sent.docs = <<>>
    /\ OidOf(sent.path) \in deleted

----------------------------------------------------------------------------
(* C5 *)

\* C5 as claimed: a List whose request has a category parameter (the empty
\* string included) answers exactly the records whose category is that
\* string, in the collection's order.
C5_ListByCategory ==
    [][\A s \in 1..MaxInFlight :
          (/\ Replied(s)
           /\ slots[s].req.op = "list"
           /\ sent'.cause # "network"
           /\ "category" \in DOMAIN slots[s].req.query) =>
             /\ sent'.kind = "ok"
             /\ sent'.docs =
                   SelectSeq(books,
                             LAMBDA d : /\ "category" \in DOMAIN d
                                        /\ d["category"] = slots[s].req.query["category"])]_vars

----------------------------------------------------------------------------
(* C6 *)

----------------------------------------------------------------------------
(* C7 *)

UniqueIds(coll) ==
    \A i, j \in 1..Len(coll) : i # j => coll[i]["_id"] # coll[j]["_id"]

\* the records keep their ids: the collection's ids are as before, or one
\* record more at the end, or one record less
IdsKept ==
    \/ Ids(books') = Ids(books)
    \/ /\ Len(books') = Len(books) + 1
       /\ \A k \in 1..Len(books) : books'[k]["_id"] = books[k]["_id"]
    \/ /\ Len(books') + 1 = Len(books)
       /\ \E i \in 1..Len(books) : Ids(books') = Ids(Remove(books, i))

\* where the id of a record that this step adds comes from
NewIdFrom ==
    Len(books') = Len(books) + 1 =>
        \E s \in 1..MaxInFlight :
            /\ Replied(s)
            /\ LET r == slots[s].req
                   id == books'[Len(books')]["_id"]
               IN  \/ /\ r.op = "create" /\ "_id" \notin DOMAIN r.body
                      /\ id \in generated /\ id.t = "oid"
                   \/ /\ r.op = "create" /\ "_id" \in DOMAIN r.body
                      /\ id = r.body["_id"]
                   \/ /\ r.op = "update"
                      /\ id = OidOf(r.id)

\* C7 as claimed: ids are unique, every record's id was generated by the
\* storage layer, and no record's id changes.
C7_IdsGenerated ==
    [][/\ UniqueIds(books')
       /\ \A k \in 1..Len(books') : books'[k]["_id"] \in generated'
       /\ IdsKept]_vars

\* C7, amended: ids are unique and no record's id changes; the id of a new
\* record is generated by the driver for a Create whose body has no _id, is
\* the body's _id for a Create whose body has one, and is the id of the path
\* for an Update that creates the record.
C7_IdsUniqueAndKept ==
    [][UniqueIds(books') /\ IdsKept /\ NewIdFrom]_vars

\* of two Updates of one absent id in flight together, one has created the
\* record and the other is still to be carried out
C7_Witness ==
    /\ sent.op = "update" /\ sent.kind = "ok"
    /\ sent.id = <<OidOf(sent.path)>>
    /\ slots[1].pc = "idle"
    /\ slots[2].pc = "await"
    /\ slots[2].req.op = "update"
    /\ slots[2].filter["_id"] = OidOf(sent.path)
    /\ nreq = 2

----------------------------------------------------------------------------
(* C8 *)

ByIdOps == {"get", "update", "delete"}

\* C8: a /book/:id request whose id is not in the identifier format never
\* has a call to the collection in flight; the step that answers it leaves
\* the collection and the calls in flight as they were and its answer is no
\* success.
C8_MalformedIdNeverReachesStorage ==
    [][/\ \A s \in 1..MaxInFlight :
             (slots'[s].pc = "await" /\ slots'[s].req.op \in ByIdOps) =>
                WellFormed(slots'[s].req.id)
       /\ (sent'.op \in ByIdOps /\ ~WellFormed(sent'.path)) =>
             /\ sent'.kind # "ok"
             /\ books' = books
             /\ \A s \in 1..MaxInFlight : slots'[s].pc = slots[s].pc]_vars

\* an Update with a malformed id has been rejected while the collection holds a record
C8_Witness ==
    /\ sent.op = "update" /\ sent.cause = "bson"
    /\ ~WellFormed(sent.path)
    /\ Len(books) >= 1

----------------------------------------------------------------------------
(* C9 *)

\* C9: once the script has run, and unless the process has ended, the
\* listener is open whatever run() has come to; a failure of run() is
\* logged; and any request for which the model has room left reaches its
\* handler and has its collection call issued.
C9_ListenerIndependentOfConnection ==
    (dbState # "idle" /\ process = "up") =>
        /\ listening
        /\ dbState = "failed" => "error" \in console
        /\ \A req \in StartupRequests :
              (/\ nreq < MaxReqs
               /\ \E s \in 1..MaxInFlight : slots[s].pc = "idle"
               /\ req.op = "create" => generated # OidPool) =>
                 ENABLED (\E s \in 1..MaxInFlight :
                             Dispatch(s, req) /\ slots'[s].pc = "await")

\* run() has failed, the listener is open and a handler has its call in flight
C9_Witness ==
    /\ dbState = "failed" /\ "error" \in console
    /\ listening
    /\ slots[1].pc = "await"

----------------------------------------------------------------------------
(* C10 *)

\* C10 as claimed: when a handler's collection call fails, the client is
\* answered an error message.
C10_FailureAnswered ==
    [][\A s \in 1..MaxInFlight :
          (Replied(s) /\ sent'.cause # "none") => sent'.kind = "error500"]_vars

====
